---- MODULE Spec2Model ----
(***************************************************************************)
(* The pipeline controller of fin-thread (job.go): Job.Run and its stages  *)
(* removeDuplicates, composeNews, saveNews, publish, updateNews, run by    *)
(* the scheduler one run after the other against the shared archivist      *)
(* store and the publisher's channel; and the date filter of               *)
(* composer.Compose (composer.go).                                         *)
(*                                                                         *)
(* One step of the model is one collaborator call of the run together with *)
(* the local code that leads to it (GetLatestNews, FindAllByHashes,        *)
(* Compose, News.Create, Publish, News.Update), so that a failure of any   *)
(* single call leaves exactly the effects of the calls before it.          *)
(*                                                                         *)
(* Specifications: Spec (one run, empty table), SpecStored (one run, table *)
(* with rows), SpecRuns and SpecDistinct (consecutive runs of a job with   *)
(* RemoveClones and SaveToDB), SpecTimeout (one run whose context ends),   *)
(* SpecConc (two runs at one time), SpecCompose (Compose by itself).       *)
(***************************************************************************)
EXTENDS Integers, Sequences, FiniteSets, TLC

\* ------------------------------------------------------------------ bounds
MaxNews == 2        \* longest list GetLatestNews returns
MaxComposed == 2    \* longest list composer.Compose returns
MaxRuns == 2        \* scheduled runs of the job

\* ------------------------------------------------------------- data model
\* journalist.News: the ID is a fingerprint of the content, so the content
\* (and the suspicious flag computed from it) is a function of the ID.
IDs == {1, 2}

NewsItem(id) ==
    [ID           |-> id,
     ProviderName |-> "provider",
     Title        |-> "title" \o ToString(id),
     Description  |-> "desc" \o ToString(id),
     IsSuspicious |-> (id % 2 = 0)]

\* Sequences over S of length at most n.
SeqUpTo(S, n) == UNION {[1..k -> S] : k \in 0..n}

\* What journalist.GetLatestNews can return (duplicates are not excluded).
NewsLists == SeqUpTo({NewsItem(id) : id \in IDs}, MaxNews)

\* A Go []string: nil and the empty slice differ (and marshal differently).
NilSlice == [isNil |-> TRUE, elems |-> <<>>]
Slice(s) == [isNil |-> FALSE, elems |-> s]
GoLen(x) == Len(x.elems)

\* composer.ComposedNews. The text generator answers with no meta at all
\* or with a hashtag only.
ComposedEmpty(id) ==
    [ID |-> id, Text |-> "plain" \o ToString(id),
     Tickers |-> NilSlice, Markets |-> Slice(<<>>), Hashtags |-> Slice(<<>>)]
ComposedTagged(id) ==
    [ID |-> id, Text |-> "tagged" \o ToString(id),
     Tickers |-> NilSlice, Markets |-> Slice(<<>>), Hashtags |-> Slice(<<"#fed">>)]
ComposedItems == {ComposedEmpty(id) : id \in IDs} \cup {ComposedTagged(id) : id \in IDs}

\* composer.Compose: the answer of the text generator is parsed as it comes,
\* so any list of composed items (any ids, any count) can come back.
ComposeResults == SeqUpTo(ComposedItems, MaxComposed)

\* ------------------------------------------------------------ JSON of meta
\* json.Marshal of struct{Tickers, Markets, Hashtags []string}, as tokens.
MarshalSlice(x) == IF x.isNil THEN <<"null">> ELSE <<"[">> \o x.elems \o <<"]">>
MarshalMeta(tickers, markets, hashtags) ==
    <<"{", "Tickers:">> \o MarshalSlice(tickers)
    \o <<"Markets:">> \o MarshalSlice(markets)
    \o <<"Hashtags:">> \o MarshalSlice(hashtags) \o <<"}">>

\* Position of token t in toks (0 when absent).
IndexOf(toks, t) ==
    IF \E i \in 1..Len(toks) : toks[i] = t
    THEN CHOOSE i \in 1..Len(toks) : toks[i] = t /\ \A j \in 1..(i - 1) : toks[j] # t
    ELSE 0
UnmarshalSlice(toks) ==
    IF toks = <<"null">> THEN NilSlice ELSE Slice(SubSeq(toks, 2, Len(toks) - 1))
\* json.Unmarshal into the same struct: fails on empty input
\* ("unexpected end of JSON input").
UnmarshalOk(data) == Len(data) > 0
UnmarshalMeta(data) ==
    LET t == IndexOf(data, "Tickers:")
        m == IndexOf(data, "Markets:")
        h == IndexOf(data, "Hashtags:")
    IN [Tickers  |-> UnmarshalSlice(SubSeq(data, t + 1, m - 1)),
        Markets  |-> UnmarshalSlice(SubSeq(data, m + 1, h - 1)),
        Hashtags |-> UnmarshalSlice(SubSeq(data, h + 1, Len(data) - 1))]

\* ------------------------------------------------------------------ state
VARIABLES
    job,        \* the Job's options, fixed by the builder calls
    run,        \* number of the current run
    pc,         \* position of the current run
    jobData,    \* JobData: News, ComposedNews, DBNews
    err,        \* the err variable of Run
    dbNews,     \* the []*models.News a stage function works on
    idx,        \* loop position inside saveNews / publish / updateNews
    store,      \* archivist: the rows of the news table
    channel,    \* publisher: the messages of the channel
    fetched,    \* history: what GetLatestNews returned in this run
    calls,      \* history: the collaborator calls of this run
    prev,       \* history: summary of the previous run
    orphans,    \* history: hashes created, and left unpublished, by a failed run
    expiredAt,  \* 0 while the run's context is live; else 1 + the number of
                \* calls the run had made when the context was done
    attempted,  \* history: the hashes passed to News.Create, in any run
    other,      \* the run of another job that runs at the same time
    composer    \* a call of composer.Compose taken by itself

vars == <<job, run, pc, jobData, err, dbNews, idx, store, channel, fetched, calls, prev, orphans,
          expiredAt, attempted, other, composer>>

Options == [omitSuspicious : BOOLEAN, omitEmptyMeta : BOOLEAN,
            shouldComposeText : BOOLEAN, shouldSaveToDB : BOOLEAN,
            shouldRemoveClones : BOOLEAN]

EmptyJobData == [News |-> <<>>, ComposedNews |-> <<>>, DBNews |-> <<>>]

\* A call of a collaborator: the record it is about (0: none) and whether it
\* returned without an error that ends the run.
Call(op, hash, ok) == [op |-> op, hash |-> hash, ok |-> ok]
CallsOf(op) == {i \in 1..Len(calls) : calls[i].op = op}
Ended == pc \in {"EndNoOp", "EndFailed", "EndSuccess"}

\* No other run, no call of Compose by itself.
Idle == [pc |-> "Idle"]

\* Run, line 78: the context of the run is done once its 20 s have passed or
\* the run is cancelled. A call that is given the context then returns its
\* error; a call made before that returns an error or not.
CtxIsDone == expiredAt > 0
CtxOutcomes == IF CtxIsDone THEN {FALSE} ELSE BOOLEAN

\* NewJob followed by any of the builder calls OmitSuspicious, OmitEmptyMeta,
\* ComposeText, RemoveClones, SaveToDB.
InitJob(rows) ==
    /\ job \in Options
    /\ run = 1
    /\ pc = "Fetch"
    /\ jobData = EmptyJobData
    /\ err = FALSE
    /\ dbNews = <<>>
    /\ idx = 1
    /\ store = rows
    /\ channel = <<>>
    /\ fetched = <<>>
    /\ calls = <<>>
    /\ prev = {}
    /\ orphans = {}
    /\ expiredAt = 0
    /\ attempted = {rows[i].Hash : i \in 1..Len(rows)}

\* One job runs, alone.
InitWith(rows) == InitJob(rows) /\ other = Idle /\ composer = Idle

\* The job starts on an empty news table.
Init == InitWith(<<>>)

\* ------------------------------------------------------------ Job.Run: fetch
\* Variants of FetchNext: the emptiness test left out; a fetch error ending
\* the run.
FetchNext_NoEmptyCheck(news, fetchErr) == "Dedupe"
FetchNext_ErrorEndsRun(news, fetchErr) ==
    IF fetchErr THEN "EndFailed" ELSE IF Len(news) = 0 THEN "EndNoOp" ELSE "Dedupe"

\* Run, lines 97-114: a fetch error is logged; only an empty list ends the run.
FetchNext(news, fetchErr) == IF Len(news) = 0 THEN "EndNoOp" ELSE "Dedupe"

GetLatestNews ==
    /\ pc = "Fetch"
    /\ \E news \in NewsLists, fetchErr \in (IF CtxIsDone THEN {TRUE} ELSE BOOLEAN) :
        /\ err' = fetchErr
        /\ fetched' = news
        /\ calls' = Append(calls, Call("GetLatestNews", 0, TRUE))
        /\ pc' = FetchNext(news, fetchErr)
        /\ jobData' = IF FetchNext(news, fetchErr) = "Dedupe"
                      THEN [EmptyJobData EXCEPT !.News = news]
                      ELSE jobData
    /\ UNCHANGED <<job, run, dbNews, idx, store, channel, prev, orphans,
                 expiredAt, attempted, other, composer>>

\* ------------------------------------------------- Job.removeDuplicates
\* Variant of ShouldRemoveDuplicates: RemoveClones alone decides.
ShouldRemoveDuplicates_ClonesOnly == job.shouldRemoveClones

\* removeDuplicates, lines 183-185.
ShouldRemoveDuplicates == job.shouldRemoveClones /\ job.shouldSaveToDB

Contains(s, x) == \E i \in 1..Len(s) : s[i] = x
Hashes(news) == [i \in 1..Len(news) |-> news[i].ID]

\* archivist News.FindAllByHashes: the stored rows whose hash was asked for.
FindAllByHashes(hashes) == SelectSeq(store, LAMBDA r : Contains(hashes, r.Hash))

\* Variant of ExistedHashes: the row id taken for the hash.
ExistedHashes_RowIDs(exists) == [i \in 1..Len(exists) |-> exists[i].ID]

ExistedHashes(exists) == [i \in 1..Len(exists) |-> exists[i].Hash]

\* Variant of UniqueNews: nothing filtered out.
UniqueNews_NoFilter(news, existedHashes) == news

UniqueNews(news, existedHashes) ==
    SelectSeq(news, LAMBDA n : ~Contains(existedHashes, n.ID))

\* Run, lines 116-129: an empty result ends the run.
DedupeNext(news) == IF Len(news) = 0 THEN "EndNoOp" ELSE "Compose"

RemoveDuplicates ==
    /\ pc = "Dedupe"
    /\ IF ~ShouldRemoveDuplicates
       THEN /\ err' = FALSE
            /\ pc' = DedupeNext(jobData.News)
            /\ UNCHANGED <<jobData, calls>>
       ELSE \E ok \in CtxOutcomes :
            /\ calls' = Append(calls, Call("FindAllByHashes", 0, ok))
            /\ err' = ~ok
            /\ IF ok
               THEN LET unique == UniqueNews(jobData.News,
                                      ExistedHashes(FindAllByHashes(Hashes(jobData.News))))
                    IN /\ jobData' = [jobData EXCEPT !.News = unique]
                       /\ pc' = DedupeNext(unique)
               ELSE /\ jobData' = [jobData EXCEPT !.News = <<>>]
                    /\ pc' = "EndFailed"
    /\ UNCHANGED <<job, run, dbNews, idx, store, channel, fetched, prev, orphans,
                 expiredAt, attempted, other, composer>>

\* ------------------------------------------------------ Job.composeNews
\* composeNews, lines 214-228. Compose gives the context to the text
\* generator only; with no item to send it returns nil, nil (composer.go,
\* lines 34-36), also when the context is done.
ComposeNews ==
    /\ pc = "Compose"
    /\ IF ~job.shouldComposeText
       THEN /\ err' = FALSE
            /\ jobData' = [jobData EXCEPT !.ComposedNews = <<>>]
            /\ pc' = "Persist"
            /\ UNCHANGED calls
       ELSE \E ok \in BOOLEAN :
            /\ calls' = Append(calls, Call("Compose", 0, ok))
            /\ err' = ~ok
            /\ IF ok
               THEN \E composedNews \in (IF CtxIsDone THEN {<<>>} ELSE ComposeResults) :
                    /\ jobData' = [jobData EXCEPT !.ComposedNews = composedNews]
                    /\ pc' = "Persist"
               ELSE /\ jobData' = [jobData EXCEPT !.ComposedNews = <<>>]
                    /\ pc' = "EndFailed"
    /\ UNCHANGED <<job, run, dbNews, idx, store, channel, fetched, prev, orphans,
                 expiredAt, attempted, other, composer>>

\* --------------------------------------------------------- Job.saveNews
\* Variant of ComposedCountExceeds: the count never checked.
ComposedCountExceeds_Unchecked(data) == FALSE

\* saveNews, line 235.
ComposedCountExceeds(data) == Len(data.News) < Len(data.ComposedNews)

\* composedNewsMap, lines 240-243: the last composed item of an id wins.
HasComposed(composedNews, id) == \E i \in 1..Len(composedNews) : composedNews[i].ID = id
ComposedFor_First(composedNews, id) ==
    composedNews[CHOOSE i \in 1..Len(composedNews) :
                    /\ composedNews[i].ID = id
                    /\ \A j \in 1..(i - 1) : composedNews[j].ID # id]
ComposedFor(composedNews, id) ==
    composedNews[CHOOSE i \in 1..Len(composedNews) :
                    /\ composedNews[i].ID = id
                    /\ \A j \in (i + 1)..Len(composedNews) : composedNews[j].ID # id]

\* models.News built from a fetched item, lines 248-276. ID is the row id
\* the archivist gives on Create; zero values stand for the unset fields.
DBRecord(n, composedNews) ==
    LET base == [ID            |-> 0,
                 Hash          |-> n.ID,
                 ProviderName  |-> n.ProviderName,
                 OriginalTitle |-> n.Title,
                 OriginalDesc  |-> n.Description,
                 IsSuspicious  |-> n.IsSuspicious,
                 ComposedText  |-> "",
                 MetaData      |-> <<>>,
                 PublicationID |-> 0,
                 PublishedAt   |-> "zero"]
    IN IF HasComposed(composedNews, n.ID)
       THEN LET val == ComposedFor(composedNews, n.ID)
            IN [base EXCEPT !.ComposedText = val.Text,
                            !.MetaData = MarshalMeta(val.Tickers, val.Markets, val.Hashtags)]
       ELSE base

\* Variant of BuildDBNews: every record built from the last item (the
\* address of the loop variable kept).
BuildDBNews_LoopVar(data) ==
    [i \in 1..Len(data.News) |-> DBRecord(data.News[Len(data.News)], data.ComposedNews)]

BuildDBNews(data) == [i \in 1..Len(data.News) |-> DBRecord(data.News[i], data.ComposedNews)]

\* saveNews up to its create loop, lines 230-277.
SaveNews ==
    /\ pc = "Persist"
    /\ IF ~job.shouldSaveToDB
       THEN /\ jobData' = [jobData EXCEPT !.DBNews = <<>>]
            /\ err' = FALSE
            /\ pc' = "Publish"
            /\ UNCHANGED dbNews
       ELSE IF ComposedCountExceeds(jobData)
       THEN /\ jobData' = [jobData EXCEPT !.DBNews = <<>>]
            /\ err' = TRUE
            /\ pc' = "EndFailed"
            /\ UNCHANGED dbNews
       ELSE /\ dbNews' = BuildDBNews(jobData)
            /\ pc' = "Create"
            /\ UNCHANGED <<jobData, err>>
    /\ idx' = 1
    /\ UNCHANGED <<job, run, store, channel, fetched, calls, prev, orphans,
                 expiredAt, attempted, other, composer>>

\* Variant of CreateFailedNext: the error of News.Create ignored.
CreateFailedNext_Ignored == "Publish"

\* Where Run goes when News.Create fails, lines 286-288 and 144-148.
CreateFailedNext == "EndFailed"

\* One round of the create loop, lines 280-291.
NewsCreate ==
    /\ pc = "Create"
    /\ IF idx > Len(dbNews)
       THEN /\ jobData' = [jobData EXCEPT !.DBNews = dbNews]
            /\ err' = FALSE
            /\ pc' = "Publish"
            /\ idx' = 1
            /\ UNCHANGED <<dbNews, store, calls, attempted>>
       ELSE \E ok \in CtxOutcomes :
            /\ calls' = Append(calls, Call("Create", dbNews[idx].Hash, ok))
            /\ attempted' = attempted \cup {dbNews[idx].Hash}
            /\ IF ok
               THEN LET row == [dbNews[idx] EXCEPT !.ID = Len(store) + 1]
                    IN /\ store' = Append(store, row)
                       /\ dbNews' = [dbNews EXCEPT ![idx] = row]
                       /\ idx' = idx + 1
                       /\ UNCHANGED <<jobData, err, pc>>
               ELSE /\ jobData' = [jobData EXCEPT !.DBNews = <<>>]
                    /\ err' = TRUE
                    /\ pc' = CreateFailedNext
                    /\ UNCHANGED <<dbNews, store, idx>>
    /\ UNCHANGED <<job, run, channel, fetched, prev, orphans,
                 expiredAt, other, composer>>

\* ---------------------------------------------------------- Job.publish
\* Variant of SkipSuspicious: the option read the wrong way round.
SkipSuspicious_Inverted(n) == n.IsSuspicious /\ ~job.omitSuspicious

\* publish, line 298.
SkipSuspicious(n) == n.IsSuspicious /\ job.omitSuspicious

\* Variant of IsEmptyMeta: the tickers alone decide.
IsEmptyMeta_TickersOnly(meta) == GoLen(meta.Tickers) = 0

\* publish, line 314, on the decoded meta.
IsEmptyMeta(meta) ==
    GoLen(meta.Tickers) = 0 /\ GoLen(meta.Markets) = 0 /\ GoLen(meta.Hashtags) = 0

\* datatypes.JSON.String(): the bytes as text.
RECURSIVE JSONString(_)
JSONString(toks) == IF Len(toks) = 0 THEN "" ELSE Head(toks) \o JSONString(Tail(toks))

BoolString(b) == IF b THEN "true" ELSE "false"

\* publish, lines 320-328.
FormattedText(n) ==
    IF job.shouldComposeText
    THEN "Hash: " \o ToString(n.Hash) \o "\nProvider: " \o n.ProviderName
         \o "\nMeta: " \o JSONString(n.MetaData)
         \o "\nIsSuspicious:" \o BoolString(n.IsSuspicious) \o "\n " \o n.ComposedText
    ELSE n.OriginalTitle \o "\n" \o n.OriginalDesc

\* Lines 340-341: the record takes the id the publisher returned and the
\* time of publication.
MarkPublished_TimeOnly(n, id) == [n EXCEPT !.PublishedAt = "now"]
MarkPublished(n, id) == [n EXCEPT !.PublicationID = id, !.PublishedAt = "now"]

\* One round of the publish loop, lines 296-344. The records are shared with
\* jobData.DBNews until publish returns; on an error it returns nil.
Publish ==
    /\ pc = "Publish"
    /\ IF idx > Len(jobData.DBNews)
       THEN /\ err' = FALSE
            /\ pc' = "Update"
            /\ idx' = 1
            /\ UNCHANGED <<jobData, dbNews, channel, calls>>
       ELSE LET n == jobData.DBNews[idx] IN
            IF SkipSuspicious(n)
            THEN /\ idx' = idx + 1
                 /\ UNCHANGED <<jobData, dbNews, err, pc, channel, calls>>
            ELSE IF job.omitEmptyMeta /\ ~UnmarshalOk(n.MetaData)
            THEN /\ jobData' = [jobData EXCEPT !.DBNews = <<>>]
                 /\ err' = TRUE
                 /\ pc' = "EndFailed"
                 /\ UNCHANGED <<dbNews, idx, channel, calls>>
            ELSE IF job.omitEmptyMeta /\ IsEmptyMeta(UnmarshalMeta(n.MetaData))
            THEN /\ idx' = idx + 1
                 /\ UNCHANGED <<jobData, dbNews, err, pc, channel, calls>>
            ELSE \E ok \in BOOLEAN :
                 /\ calls' = Append(calls, Call("Publish", n.Hash, ok))
                 /\ IF ok
                    THEN LET published == MarkPublished(n, Len(channel) + 1)
                         IN /\ channel' = Append(channel, FormattedText(n))
                            /\ jobData' = [jobData EXCEPT !.DBNews[idx] = published]
                            /\ dbNews' = [dbNews EXCEPT ![idx] = published]
                            /\ idx' = idx + 1
                            /\ UNCHANGED <<err, pc>>
                    ELSE /\ jobData' = [jobData EXCEPT !.DBNews = <<>>]
                         /\ err' = TRUE
                         /\ pc' = "EndFailed"
                         /\ UNCHANGED <<dbNews, idx, channel>>
    /\ UNCHANGED <<job, run, store, fetched, prev, orphans,
                 expiredAt, attempted, other, composer>>

\* ------------------------------------------------------- Job.updateNews
\* One round of the update loop, lines 348-365. News.Update writes the
\* record over the row with its ID.
NewsUpdate ==
    /\ pc = "Update"
    /\ IF ~job.shouldSaveToDB \/ idx > Len(jobData.DBNews)
       THEN /\ err' = FALSE
            /\ pc' = "EndSuccess"
            /\ UNCHANGED <<store, idx, calls>>
       ELSE LET n == jobData.DBNews[idx] IN
            \E ok \in CtxOutcomes :
            /\ calls' = Append(calls, Call("Update", n.Hash, ok))
            /\ IF ok
               THEN /\ store' = [store EXCEPT ![n.ID] = n]
                    /\ idx' = idx + 1
                    /\ UNCHANGED <<err, pc>>
               ELSE /\ err' = TRUE
                    /\ pc' = "EndFailed"
                    /\ UNCHANGED <<store, idx>>
    /\ UNCHANGED <<job, run, jobData, dbNews, channel, fetched, prev, orphans,
                 expiredAt, attempted, other, composer>>

\* ------------------------------------------------------------ scheduler
OkCalls(op) == {i \in CallsOf(op) : calls[i].ok}
CountOf(op, h) == Cardinality({i \in OkCalls(op) : calls[i].hash = h})

\* Every item that reached saveNews in this run was created.
Saved ==
    /\ OkCalls("Create") # {}
    /\ Cardinality(OkCalls("Create")) = Len(jobData.News)

\* What is remembered of the run that just finished: the ids it fetched, if
\* it created them all (no ids otherwise).
Summary == IF Saved THEN {fetched[i].ID : i \in 1..Len(fetched)} ELSE {}

\* Hashes with a record created in this run and not published by it, the
\* run having failed.
Unpublished ==
    IF pc = "EndFailed"
    THEN {h \in IDs : CountOf("Create", h) > CountOf("Publish", h)}
    ELSE {}

\* The scheduler calls the JobFunc again: Run starts afresh, lines 77-97.
NextRun ==
    /\ Ended
    /\ run < MaxRuns
    /\ run' = run + 1
    /\ pc' = "Fetch"
    /\ jobData' = EmptyJobData
    /\ err' = FALSE
    /\ dbNews' = <<>>
    /\ idx' = 1
    /\ fetched' = <<>>
    /\ calls' = <<>>
    /\ prev' = Summary
    /\ orphans' = orphans \cup Unpublished
    /\ expiredAt' = 0
    /\ UNCHANGED <<job, store, channel, attempted, other, composer>>

\* One run of the job.
Next ==
    \/ GetLatestNews
    \/ RemoveDuplicates
    \/ ComposeNews
    \/ SaveNews
    \/ NewsCreate
    \/ Publish
    \/ NewsUpdate

Spec == Init /\ [][Next]_vars

\* The runs the scheduler starts one after the other, of a job built with
\* RemoveClones and SaveToDB.
InitRuns == Init /\ job.shouldRemoveClones /\ job.shouldSaveToDB

NextRuns == Next \/ NextRun

SpecRuns == InitRuns /\ [][NextRuns]_vars

\* ----------------------------------------------- fetches without repeats
DistinctIDs(news) == \A i, j \in 1..Len(news) : i # j => news[i].ID # news[j].ID

\* GetLatestNews when the journalist returns no id twice.
GetDistinctNews == GetLatestNews /\ DistinctIDs(fetched')

NextDistinct ==
    \/ GetDistinctNews
    \/ RemoveDuplicates
    \/ ComposeNews
    \/ SaveNews
    \/ NewsCreate
    \/ Publish
    \/ NewsUpdate
    \/ NextRun

\* The runs the scheduler starts one after the other, of a job built with
\* RemoveClones and SaveToDB, every fetch returning pairwise distinct ids.
SpecDistinct == InitRuns /\ [][NextDistinct]_vars

\* ------------------------------------------------- a table with rows in it
\* models.News built from a fetched item and created, as saveNews does for an
\* item without composed text (lines 248-258 and 280-289).
StoredRow(n, id) == [DBRecord(n, <<>>) EXCEPT !.ID = id]
\* The tables an earlier run can have left: it created a record for every
\* item of its fetch and published none.
StoredBefore == {[i \in 1..Len(news) |-> StoredRow(news[i], i)] : news \in NewsLists}

\* The job starts on a table that earlier runs, of this or another job of
\* the application, have written to.
InitStored == \E rows \in StoredBefore : InitWith(rows)

\* One run of the job on such a table.
SpecStored == InitStored /\ [][Next]_vars

\* ------------------------------------------------------- the run's context
\* Run, lines 78-79: the timeout of the context passes, or the run is
\* cancelled, at any moment of the run.
CtxDone ==
    /\ ~Ended
    /\ ~CtxIsDone
    /\ expiredAt' = Len(calls) + 1
    /\ UNCHANGED <<job, run, pc, jobData, err, dbNews, idx, store, channel, fetched, calls,
                   prev, orphans, attempted, other, composer>>

NextTimeout == Next \/ CtxDone

\* One run of the job, with its context done at some moment.
SpecTimeout == Init /\ [][NextTimeout]_vars

\* ------------------------------------------------- two runs at one time
\* What a run holds of its own: its job, its place in Run and the locals of
\* Run. The store and the channel are shared.
Local ==
    [job |-> job, pc |-> pc, jobData |-> jobData, err |-> err, dbNews |-> dbNews,
     idx |-> idx, fetched |-> fetched, calls |-> calls]

\* A run of the job o that has not fetched yet.
StartOf(o) ==
    [job |-> o, pc |-> "Fetch", jobData |-> EmptyJobData, err |-> FALSE, dbNews |-> <<>>,
     idx |-> 1, fetched |-> <<>>, calls |-> <<>>]

\* The scheduler runs each job in its own goroutine: between two collaborator
\* calls of one run the other run can make its next call.
Switch ==
    /\ other.pc \notin {"Idle", "EndNoOp", "EndFailed", "EndSuccess"}
    /\ other' = Local
    /\ job' = other.job
    /\ pc' = other.pc
    /\ jobData' = other.jobData
    /\ err' = other.err
    /\ dbNews' = other.dbNews
    /\ idx' = other.idx
    /\ fetched' = other.fetched
    /\ calls' = other.calls
    /\ UNCHANGED <<run, store, channel, prev, orphans, expiredAt, attempted, composer>>

\* The jobs that write to the store and do not compose (composing touches
\* neither the store nor the channel).
StoringJob(o) == o.shouldSaveToDB /\ ~o.shouldComposeText

\* Two such jobs start a run each on an empty table.
InitConc ==
    /\ InitJob(<<>>)
    /\ StoringJob(job)
    /\ \E o \in Options : StoringJob(o) /\ other = StartOf(o)
    /\ composer = Idle

\* GetLatestNews of a job whose source shares no id with the source of the
\* other job.
GetOwnNews ==
    /\ GetLatestNews
    /\ \A i \in 1..Len(fetched'), j \in 1..Len(other.fetched) :
          fetched'[i].ID # other.fetched[j].ID

NextConc ==
    \/ GetOwnNews
    \/ RemoveDuplicates
    \/ ComposeNews
    \/ SaveNews
    \/ NewsCreate
    \/ Publish
    \/ NewsUpdate
    \/ Switch

SpecConc == InitConc /\ [][NextConc]_vars

\* ---------------------------------------------- composer.Compose by itself
\* time.Time, as far as Compose looks at it: a calendar date. Day() is the
\* day of the month.
Years == {2023, 2024}
Months == {11, 12}
Days == {3, 4}
Dates == [year : Years, month : Months, day : Days]
Day(t) == t.day

\* journalist.News with its Date, and the lists Compose can be given.
DatedNews == [ID : IDs, Date : Dates]
DatedLists == SeqUpTo(DatedNews, MaxNews)

\* Compose, lines 30-32: the items kept for the text generator.
TodayNews(news, now) == SelectSeq(news, LAMBDA n : Day(n.Date) = Day(now))

\* Compose is called with a list of items, time.Now() being some date.
InitCompose ==
    /\ composer \in [pc : {"Filter"}, news : DatedLists, now : Dates,
                     todayNews : {<<>>}, requests : {<<>>}, result : {<<>>}, err : {FALSE}]
    /\ job = [omitSuspicious |-> FALSE, omitEmptyMeta |-> FALSE, shouldComposeText |-> TRUE,
              shouldSaveToDB |-> FALSE, shouldRemoveClones |-> FALSE]
    /\ run = 1
    /\ pc = "Compose"
    /\ jobData = EmptyJobData
    /\ err = FALSE
    /\ dbNews = <<>>
    /\ idx = 1
    /\ store = <<>>
    /\ channel = <<>>
    /\ fetched = <<>>
    /\ calls = <<>>
    /\ prev = {}
    /\ orphans = {}
    /\ expiredAt = 0
    /\ attempted = {}
    /\ other = Idle

\* Compose, lines 29-36: the filter, and the return of nil, nil when it
\* keeps nothing.
ComposeFilter ==
    /\ composer.pc = "Filter"
    /\ LET todayNews == TodayNews(composer.news, composer.now)
       IN composer' = [composer EXCEPT !.todayNews = todayNews,
                                       !.pc = IF Len(todayNews) = 0 THEN "Done" ELSE "Client"]
    /\ UNCHANGED <<job, run, pc, jobData, err, dbNews, idx, store, channel, fetched, calls,
                   prev, orphans, expiredAt, attempted, other>>

\* Compose, lines 38-76: the kept items are sent to the text generator; the
\* call fails, or its answer does not parse, or it parses into any list of
\* composed items.
CreateChatCompletion ==
    /\ composer.pc = "Client"
    /\ \E ok \in BOOLEAN, parsed \in ComposeResults :
          composer' = [composer EXCEPT !.requests = Append(@, composer.todayNews),
                                       !.result = IF ok THEN parsed ELSE <<>>,
                                       !.err = ~ok,
                                       !.pc = "Done"]
    /\ UNCHANGED <<job, run, pc, jobData, err, dbNews, idx, store, channel, fetched, calls,
                   prev, orphans, expiredAt, attempted, other>>

NextCompose == ComposeFilter \/ CreateChatCompletion

SpecCompose == InitCompose /\ [][NextCompose]_vars

\* ================================================================ claims
FetchedIDs == {fetched[i].ID : i \in 1..Len(fetched)}
NoCalls(op) == CallsOf(op) = {}
FailedCalls(op) == {i \in CallsOf(op) : ~calls[i].ok}
RecordsOf(s) == {s[i] : i \in 1..Len(s)}
\* Every record the run or the store holds.
AllRecords == RecordsOf(dbNews) \cup RecordsOf(jobData.DBNews) \cup RecordsOf(store)

\* C1: when a run fetches the same set of items as the run before it, and
\* that run created a record for each of them, the run makes no News.Create
\* call (the job has RemoveClones and SaveToDB set).
C1_IdempotentPersistence ==
    (run > 1 /\ prev # {} /\ FetchedIDs = prev) => NoCalls("Create")

C1_Witness ==
    /\ run > 1 /\ prev # {} /\ FetchedIDs = prev
    /\ pc = "EndNoOp"
    /\ OkCalls("FindAllByHashes") # {}
    /\ Len(store) > 0

\* C2: a run whose fetch returned no item, with or without a fetch error,
\* ends as a no-op and has called no collaborator besides GetLatestNews.
C2_EmptyFetchNoOp ==
    (pc # "Fetch" /\ Len(fetched) = 0) =>
        /\ pc = "EndNoOp"
        /\ \A i \in 1..Len(calls) : calls[i].op = "GetLatestNews"

C2_Witness == pc = "EndNoOp" /\ Len(fetched) = 0 /\ err /\ Len(calls) = 1

\* C3: a fetch that returns an error together with items leaves the run
\* exactly where the same fetch without an error leaves it: at the dedupe
\* stage, carrying those items, having made the one fetch call.
C3_FetchErrorRecoverable ==
    [][(pc = "Fetch" /\ pc' # "Fetch" /\ err' /\ Len(fetched') > 0) =>
          /\ pc' = "Dedupe"
          /\ jobData' = [EmptyJobData EXCEPT !.News = fetched']
          /\ calls' = Append(calls, Call("GetLatestNews", 0, TRUE))
          /\ store' = store /\ channel' = channel]_vars

C3_Witness == pc = "Dedupe" /\ err /\ Len(jobData.News) > 0 /\ jobData.News = fetched

\* The composed items of the run outnumber the raw items that reached
\* saveNews, and saveNews has been entered.
ComposedExceeds ==
    /\ Len(jobData.ComposedNews) > Len(jobData.News)
    /\ pc # "Persist"
NoWrites == NoCalls("Create") /\ NoCalls("Publish") /\ NoCalls("Update")

\* C4 as stated: for every configuration, more composed items than raw items
\* means the run ends failed without any write.
C4_Original == ComposedExceeds => (pc = "EndFailed" /\ NoWrites)

\* C4, amended: with persistence enabled, more composed items than raw
\* items means the run ends failed without any Create, Publish or Update.
C4_ComposedCountBound ==
    (job.shouldSaveToDB /\ ComposedExceeds) => (pc = "EndFailed" /\ NoWrites)

C4_Witness ==
    /\ job.shouldSaveToDB /\ ComposedExceeds
    /\ pc = "EndFailed" /\ err
    /\ OkCalls("Compose") # {}

\* C5: with omitSuspicious set, no suspicious record is passed to Publish and
\* no suspicious record ever has its PublicationID or PublishedAt set.
C5_SuspiciousNeverPublished ==
    job.omitSuspicious =>
        /\ \A i \in CallsOf("Publish") : ~NewsItem(calls[i].hash).IsSuspicious
        /\ \A r \in AllRecords :
              r.IsSuspicious => (r.PublicationID = 0 /\ r.PublishedAt = "zero")

C5_Witness ==
    /\ job.omitSuspicious /\ job.shouldComposeText
    /\ pc = "EndSuccess"
    /\ \E r \in RecordsOf(store) : r.IsSuspicious /\ r.ComposedText # ""
    /\ \E r \in RecordsOf(store) : ~r.IsSuspicious /\ r.PublicationID # 0

\* The composed item attached to hash h has no ticker, market or hashtag.
ComposedAllEmpty(h) ==
    /\ HasComposed(jobData.ComposedNews, h)
    /\ LET c == ComposedFor(jobData.ComposedNews, h)
       IN Len(c.Tickers.elems) + Len(c.Markets.elems) + Len(c.Hashtags.elems) = 0
\* The composed item attached to hash h has a ticker, a market or a hashtag.
ComposedSomeMeta(h) ==
    /\ HasComposed(jobData.ComposedNews, h)
    /\ LET c == ComposedFor(jobData.ComposedNews, h)
       IN Len(c.Tickers.elems) + Len(c.Markets.elems) + Len(c.Hashtags.elems) > 0
\* The publish loop has gone past record k of jobData.DBNews.
PublishPassed(k) ==
    /\ pc \in {"Publish", "Update", "EndSuccess"}
    /\ k \in 1..Len(jobData.DBNews)
    /\ pc = "Publish" => k < idx

\* C6: with ComposeText and OmitEmptyMeta set, a record whose composed
\* tickers, markets and hashtags are all empty is never passed to Publish,
\* and a record with one of them non-empty, not skipped as suspicious, is
\* published when the loop comes to it.
C6_EmptyMetaFiltering ==
    (job.shouldComposeText /\ job.omitEmptyMeta) =>
        /\ \A i \in CallsOf("Publish") : ~ComposedAllEmpty(calls[i].hash)
        /\ \A k \in 1..Len(jobData.DBNews) :
              LET r == jobData.DBNews[k]
              IN (PublishPassed(k) /\ ComposedSomeMeta(r.Hash)
                  /\ ~(r.IsSuspicious /\ job.omitSuspicious))
                 => r.PublicationID # 0

C6_Witness ==
    /\ job.shouldComposeText /\ job.omitEmptyMeta
    /\ pc = "EndSuccess"
    /\ \E r \in RecordsOf(jobData.DBNews) :
          ComposedAllEmpty(r.Hash) /\ r.PublicationID = 0 /\ ~SkipSuspicious(r)
    /\ \E r \in RecordsOf(jobData.DBNews) :
          ComposedSomeMeta(r.Hash) /\ r.PublicationID # 0

\* C7: when News.Create fails on the k-th record the run ends failed at
\* that call, the store holds exactly the first k-1 records of the run, and
\* neither Publish nor News.Update was called.
C7_PartialPersistFailure ==
    FailedCalls("Create") # {} =>
        LET k == Cardinality(CallsOf("Create"))
        IN /\ pc = "EndFailed"
           /\ FailedCalls("Create") = {Len(calls)}
           /\ k <= Len(jobData.News)
           /\ store = SubSeq(dbNews, 1, k - 1)
           /\ \A j \in 1..(k - 1) : store[j].Hash = jobData.News[j].ID
           /\ NoCalls("Publish") /\ NoCalls("Update")

C7_Witness ==
    /\ FailedCalls("Create") # {}
    /\ Cardinality(CallsOf("Create")) = 2
    /\ Len(store) = 1
    /\ pc = "EndFailed"

\* C8 as stated: when Publish fails the run ends failed at that call, and
\* every record published before it has its publication id set, in the
\* run's data and in the store.
C8_Claim ==
    FailedCalls("Publish") # {} =>
        /\ pc = "EndFailed"
        /\ FailedCalls("Publish") = {Len(calls)}
        /\ \A i \in OkCalls("Publish") :
              /\ \E r \in RecordsOf(jobData.DBNews) :
                    r.Hash = calls[i].hash /\ r.PublicationID # 0
              /\ \E r \in RecordsOf(store) :
                    r.Hash = calls[i].hash /\ r.PublicationID # 0

\* C9: a hash whose record a failed run created and left unpublished is
\* never passed to Publish by a later run (the job has RemoveClones and
\* SaveToDB set), also when it is fetched again.
C9_UnpublishedNotRetried ==
    \A i \in CallsOf("Publish") : calls[i].hash \notin orphans

C9_Witness ==
    /\ \E h \in orphans : h \in FetchedIDs
    /\ OkCalls("Publish") # {}
    /\ pc = "EndSuccess"

\* An item passes the publish filters of the job.
PassesFilters(n) ==
    /\ ~(job.omitSuspicious /\ n.IsSuspicious)
    /\ ~(job.omitEmptyMeta /\ ~ComposedSomeMeta(n.ID))

\* C10 as stated: with persistence disabled, a run that comes to its end
\* has passed every fetched item that passes the filters to Publish exactly
\* once, and has made no Create or Update call.
C10_Claim ==
    (~job.shouldSaveToDB /\ pc = "EndSuccess") =>
        /\ NoCalls("Create") /\ NoCalls("Update")
        /\ \A k \in 1..Len(jobData.News) :
              PassesFilters(jobData.News[k]) =>
                  Cardinality({i \in CallsOf("Publish") : calls[i].hash = jobData.News[k].ID})
                      = Cardinality({j \in 1..Len(jobData.News) :
                                        jobData.News[j].ID = jobData.News[k].ID})

\* The rows News.Create stored in this run (the last rows of the store) and
\* the rows the store held when the run started.
CreatedRows ==
    SubSeq(store, Len(store) - Cardinality(OkCalls("Create")) + 1, Len(store))
EarlierRows == SubSeq(store, 1, Len(store) - Cardinality(OkCalls("Create")))
\* The fetched items that survive dedupe: all of them when dedupe does not
\* run, else those whose id is the hash of no row stored before the run.
Survivors ==
    IF job.shouldRemoveClones /\ job.shouldSaveToDB
    THEN SelectSeq(fetched, LAMBDA n : \A r \in RecordsOf(EarlierRows) : r.Hash # n.ID)
    ELSE fetched
\* saveNews has returned the created records.
PersistDone == job.shouldSaveToDB /\ pc \in {"Publish", "Update", "EndSuccess"}
\* The positions of the composed items with this id.
ComposedAt(id) == {j \in 1..Len(jobData.ComposedNews) : jobData.ComposedNews[j].ID = id}

\* C11: when saveNews has created its records, there is exactly one Create
\* call and one stored row per item that survived dedupe, in fetch order,
\* with the item's id as hash; a row has composed text and metadata if and
\* only if a composed item has its id, and then they are the text and the
\* tickers, markets and hashtags of that composed item (of the last one with
\* that id, when several have it).
C11_PersistResult ==
    PersistDone =>
        /\ Cardinality(CallsOf("Create")) = Len(Survivors)
        /\ Len(CreatedRows) = Len(Survivors)
        /\ \A k \in 1..Len(CreatedRows) :
              LET r == CreatedRows[k]
                  at == ComposedAt(Survivors[k].ID)
              IN /\ r.Hash = Survivors[k].ID
                 /\ r.Hash = calls[CHOOSE i \in CallsOf("Create") :
                                      Cardinality({j \in CallsOf("Create") : j <= i}) = k].hash
                 /\ (r.ComposedText # "") <=> (at # {})
                 /\ (Len(r.MetaData) > 0) <=> (at # {})
                 /\ at # {} =>
                       LET c == jobData.ComposedNews[CHOOSE j \in at : \A i \in at : i <= j]
                           meta == UnmarshalMeta(r.MetaData)
                       IN /\ r.ComposedText = c.Text
                          /\ meta.Tickers.elems = c.Tickers.elems
                          /\ meta.Markets.elems = c.Markets.elems
                          /\ meta.Hashtags.elems = c.Hashtags.elems

\* Two items with different ids were created; two different composed items
\* carry the id of the first, none the id of the second.
C11_Witness ==
    /\ PersistDone /\ pc = "EndSuccess"
    /\ Len(Survivors) = 2 /\ Survivors[1].ID # Survivors[2].ID
    /\ ComposedAt(Survivors[1].ID) = {1, 2}
    /\ jobData.ComposedNews[1] # jobData.ComposedNews[2]
    /\ CreatedRows[1].ComposedText = jobData.ComposedNews[2].Text
    /\ CreatedRows[2].ComposedText = ""

\* The hashes of the calls of op, in the order of the calls.
HashesOf(op) == [k \in 1..Cardinality(CallsOf(op)) |->
                    calls[CHOOSE i \in CallsOf(op) :
                             Cardinality({j \in CallsOf(op) : j <= i}) = k].hash]
PublishedOk(h) == \E i \in OkCalls("Publish") : calls[i].hash = h

\* C12: in a run with persistence enabled, the k-th News.Update call is for
\* the k-th record created in this run, whether the publish filters skipped
\* it or not, and the row it writes has its publication id and time set if
\* and only if Publish succeeded for the record in this run (unset, the zero
\* values, otherwise); a run that ends in success has made exactly one
\* Update call per created record.
C12_UpdateStage ==
    job.shouldSaveToDB =>
        /\ Cardinality(CallsOf("Update")) <= Len(CreatedRows)
        /\ \A k \in 1..Cardinality(CallsOf("Update")) :
              HashesOf("Update")[k] = CreatedRows[k].Hash
        /\ \A k \in 1..Cardinality(OkCalls("Update")) :
              LET r == CreatedRows[k]
              IN /\ (r.PublicationID # 0) <=> PublishedOk(r.Hash)
                 /\ (r.PublishedAt # "zero") <=> PublishedOk(r.Hash)
        /\ pc = "EndSuccess" =>
              /\ HashesOf("Update") = HashesOf("Create")
              /\ OkCalls("Update") = CallsOf("Update")

\* A successful run updated two records: one published, one skipped by a
\* publish filter.
C12_Witness ==
    /\ job.shouldSaveToDB /\ pc = "EndSuccess"
    /\ Cardinality(OkCalls("Update")) = 2
    /\ Cardinality(OkCalls("Publish")) = 1
    /\ store[1].PublicationID = 0 /\ store[1].PublishedAt = "zero"
    /\ store[2].PublicationID # 0 /\ store[2].PublishedAt = "now"

\* C13 as stated: a run of a job with persistence enabled in which no
\* collaborator call returned an error and the composed items do not
\* outnumber the raw items ends in success or as a no-op, also when
\* OmitEmptyMeta is set and a record has no enrichment attached.
C13_Claim ==
    (/\ job.shouldSaveToDB
     /\ Ended
     /\ \A i \in 1..Len(calls) : calls[i].ok
     /\ Len(jobData.ComposedNews) <= Len(jobData.News))
    => pc \in {"EndSuccess", "EndNoOp"}

\* The place of a collaborator call in the stage order of Run.
StageRank(op) ==
    CASE op = "GetLatestNews" -> 1
      [] op = "FindAllByHashes" -> 2
      [] op = "Compose" -> 3
      [] op = "Create" -> 4
      [] op = "Publish" -> 5
      [] op = "Update" -> 6
\* a can be obtained from b by deleting elements.
RECURSIVE Embeds(_, _)
Embeds(a, b) ==
    IF Len(a) = 0 THEN TRUE
    ELSE IF Len(b) = 0 THEN FALSE
    ELSE IF Head(a) = Head(b) THEN Embeds(Tail(a), Tail(b))
    ELSE Embeds(a, Tail(b))
IsPrefix(a, b) == Len(a) <= Len(b) /\ a = SubSeq(b, 1, Len(a))

\* C16: the collaborator calls of a run come in the stage order Fetch,
\* Dedupe, Compose, Persist, Publish, Update; GetLatestNews, FindAllByHashes
\* and Compose are called at most once; Create is called at most once per
\* item, in fetch order; Publish is called in fetch order, at most once per
\* created record; Update at most once per created record, in order; and a
\* call that fails is the last call of the run, which is then in EndFailed.
C16_StageOrder ==
    /\ \A i, j \in 1..Len(calls) :
          i < j => StageRank(calls[i].op) <= StageRank(calls[j].op)
    /\ \A op \in {"GetLatestNews", "FindAllByHashes", "Compose"} :
          Cardinality(CallsOf(op)) <= 1
    /\ IsPrefix(HashesOf("Create"), Hashes(jobData.News))
    /\ Embeds(HashesOf("Publish"), HashesOf("Create"))
    /\ IsPrefix(HashesOf("Update"), HashesOf("Create"))
    /\ \A i \in 1..Len(calls) :
          ~calls[i].ok => (i = Len(calls) /\ pc = "EndFailed")

\* A run that called every collaborator, for two records, and failed on
\* its last Update call.
C16_Witness ==
    /\ pc = "EndFailed"
    /\ \A op \in {"GetLatestNews", "FindAllByHashes", "Compose"} :
          Cardinality(CallsOf(op)) = 1
    /\ HashesOf("Create") = <<2, 1>>
    /\ HashesOf("Publish") = <<2, 1>>
    /\ HashesOf("Update") = <<2, 1>>
    /\ FailedCalls("Update") = {Len(calls)}

\* C14 as stated, for Publish: no Publish call that the run issues after
\* its context is done (timeout or cancellation) succeeds.
C14_Claim ==
    \A i \in CallsOf("Publish") : (CtxIsDone /\ i >= expiredAt) => ~calls[i].ok

\* The run has gone through removeDuplicates.
DedupeDone == pc \notin {"Fetch", "Dedupe"} /\ Len(fetched) > 0

\* C15: a run that has gone through the dedupe stage has called
\* FindAllByHashes once if RemoveClones and SaveToDB are both set, and not at
\* all otherwise, in which case it carries the fetched items unchanged. When
\* the call succeeded the run carries exactly the fetched items whose id is
\* the hash of no row the table held, in fetch order; when there is none the
\* run has ended as a no-op without a Compose, Create, Publish or Update call.
C15_DedupeStage ==
    DedupeDone =>
        /\ Cardinality(CallsOf("FindAllByHashes")) =
              (IF job.shouldRemoveClones /\ job.shouldSaveToDB THEN 1 ELSE 0)
        /\ NoCalls("FindAllByHashes") => jobData.News = fetched
        /\ OkCalls("FindAllByHashes") # {} =>
              /\ jobData.News = Survivors
              /\ Embeds(Hashes(jobData.News), Hashes(fetched))
              /\ \A n \in RecordsOf(fetched) :
                    Contains(jobData.News, n) <=>
                        ~\E r \in RecordsOf(EarlierRows) : r.Hash = n.ID
              /\ Len(Survivors) = 0 =>
                    /\ pc = "EndNoOp"
                    /\ NoCalls("Compose") /\ NoWrites

\* Of two fetched items the table held the first: the run went on with the
\* second alone and created its record.
C15_Witness ==
    /\ DedupeDone /\ OkCalls("FindAllByHashes") # {}
    /\ Len(fetched) = 2
    /\ Len(EarlierRows) > 0 /\ EarlierRows[1].Hash = fetched[1].ID
    /\ jobData.News = <<fetched[2]>>
    /\ pc = "EndSuccess"

NoDupHashes(rows) == \A i, j \in 1..Len(rows) : i # j => rows[i].Hash # rows[j].Hash

\* C19 as stated: over consecutive runs with dedupe and persistence enabled
\* whose fetches return pairwise distinct ids, no hash is passed to
\* News.Create that was passed to it before.
C19_Original ==
    [][(Len(calls') = Len(calls) + 1 /\ calls'[Len(calls')].op = "Create")
          => calls'[Len(calls')].hash \notin attempted]_vars

\* C19, amended: over such runs no hash is passed to News.Create when a
\* row with that hash is stored or when this run has passed it already, so
\* no two rows of the store have the same hash.
C19_AtMostOnce ==
    /\ NoDupHashes(store)
    /\ \A i \in CallsOf("Create") :
          /\ \A r \in RecordsOf(EarlierRows) : r.Hash # calls[i].hash
          /\ \A j \in CallsOf("Create") : j # i => calls[j].hash # calls[i].hash

\* A later run fetched two items, one stored by an earlier run and one whose
\* hash was passed to News.Create before without being stored, and created
\* the second alone.
C19_Witness ==
    /\ run > 1 /\ pc = "EndSuccess"
    /\ Len(fetched) = 2
    /\ Len(EarlierRows) = 1 /\ EarlierRows[1].Hash = fetched[1].ID
    /\ HashesOf("Create") = <<fetched[2].ID>>
    /\ OkCalls("Create") # {}
    /\ prev = {} /\ attempted = FetchedIDs
    /\ Len(store) = 2

\* C17 as stated: every item Compose sends to the text generator is dated on
\* the calendar day of the call, and when no item is, Compose has returned
\* an empty result and no error without calling the text generator.
C17_Claim ==
    /\ \A k \in 1..Len(composer.requests) :
          \A n \in RecordsOf(composer.requests[k]) : n.Date = composer.now
    /\ (/\ composer.pc = "Done"
        /\ \A n \in RecordsOf(composer.news) : n.Date # composer.now)
       => /\ composer.requests = <<>>
          /\ composer.result = <<>> /\ ~composer.err

\* The two runs, and what each of them did: the hashes of its calls of op in
\* the order of the calls, its failed calls, the records it created.
BothRuns == {Local, other}
HashesIn(L, op) ==
    LET at == {i \in 1..Len(L.calls) : L.calls[i].op = op}
    IN [k \in 1..Cardinality(at) |->
           L.calls[CHOOSE i \in at : Cardinality({j \in at : j <= i}) = k].hash]
FailedIn(L) == {i \in 1..Len(L.calls) : ~L.calls[i].ok}
UpdatedIn(L) == Cardinality({i \in 1..Len(L.calls) : L.calls[i].op = "Update" /\ L.calls[i].ok})
CreatedBy(L) == SelectSeq(L.dbNews, LAMBDA r : r.ID # 0)

\* What a run does when it runs alone on the empty table, from what its own
\* collaborator calls returned: the items it publishes, and how it ends.
SoloPublishable(L) ==
    SelectSeq(L.fetched, LAMBDA n : ~(n.IsSuspicious /\ L.job.omitSuspicious))
SoloEnd(L) ==
    IF Len(L.fetched) = 0 THEN "EndNoOp"
    ELSE IF FailedIn(L) # {} THEN "EndFailed"
    ELSE IF L.job.omitEmptyMeta /\ Len(SoloPublishable(L)) > 0 THEN "EndFailed"
    ELSE "EndSuccess"

\* Each run makes the calls, and ends, as it does alone.
RunsAsAlone(L) ==
    /\ L.pc \notin {"Fetch", "Dedupe", "EndNoOp"} /\ FailedIn(L) = {}
          => L.jobData.News = L.fetched
    /\ IsPrefix(HashesIn(L, "Create"), Hashes(L.fetched))
    /\ IsPrefix(HashesIn(L, "Publish"), Hashes(SoloPublishable(L)))
    /\ IsPrefix(HashesIn(L, "Update"), Hashes(L.fetched))
    /\ L.pc \in {"EndNoOp", "EndFailed", "EndSuccess"} => L.pc = SoloEnd(L)
    /\ L.pc = "EndSuccess" =>
          /\ HashesIn(L, "Create") = Hashes(L.fetched)
          /\ HashesIn(L, "Publish") = Hashes(SoloPublishable(L))
          /\ HashesIn(L, "Update") = Hashes(L.fetched)
\* The rows a run created hold what that run wrote last.
OwnRowsKept(L) ==
    \A k \in 1..Len(CreatedBy(L)) :
        LET r == CreatedBy(L)[k]
        IN /\ r.ID \in 1..Len(store)
           /\ store[r.ID] = IF k <= UpdatedIn(L) THEN r
                            ELSE [r EXCEPT !.PublicationID = 0, !.PublishedAt = "zero"]
\* No hash is passed to News.Create twice, by either run.
CreatesOf(L, h) ==
    Cardinality({i \in 1..Len(L.calls) : L.calls[i].op = "Create" /\ L.calls[i].hash = h})
CreatedOnce == \A h \in IDs : CreatesOf(Local, h) + CreatesOf(other, h) <= 1

\* C18 as stated: two runs at one time, of jobs that store and whose fetches
\* share no id: under every interleaving of their calls each run makes the
\* Create, Publish and Update calls, and ends, as it does alone, the rows of
\* each run hold what that run wrote, and no hash is created twice.
C18_Original ==
    /\ \A L \in BothRuns : RunsAsAlone(L) /\ OwnRowsKept(L)
    /\ Len(store) = Len(CreatedBy(Local)) + Len(CreatedBy(other))
    /\ CreatedOnce

\* C18, amended: the same, no hash being created twice when neither fetch
\* returned an id twice.
C18_NonInterference ==
    /\ \A L \in BothRuns : RunsAsAlone(L) /\ OwnRowsKept(L)
    /\ Len(store) = Len(CreatedBy(Local)) + Len(CreatedBy(other))
    /\ (DistinctIDs(fetched) /\ DistinctIDs(other.fetched)) => CreatedOnce

\* Both runs ended in success, one record each; the run that created its
\* row first published it last.
C18_Witness ==
    /\ pc = "EndSuccess" /\ other.pc = "EndSuccess"
    /\ Len(fetched) = 1 /\ Len(other.fetched) = 1
    /\ Len(store) = 2
    /\ store[1].PublicationID = 2 /\ store[2].PublicationID = 1

====
